---- MODULE Spec2Model ----
(***************************************************************************)
(* A model of the EventDb of time_track (src/src/lib.rs): the tag         *)
(* registry (HashMap<u16, Tag>), the event map (BTreeMap<i64, Event>),    *)
(* the two EventId addressings, the operations that mutate the store,     *)
(* the log between two times and the JSON file the store is written to    *)
(* and read from.                                                          *)
(***************************************************************************)
EXTENDS Integers, Sequences, FiniteSets, TLC

VARIABLES tags, events, file, written, last

vars == <<tags, events, file, written, last>>

(***************************************************************************)
(* Bounds and input universes.                                             *)
(***************************************************************************)

\* Timestamps are i64.  TLC's integers are 32 bits wide, so the model keeps
\* the two's complement structure at a narrower width.
IntBits == 6

\* Longest list of short names handed to an operation.
MaxNames == 2

MaxInt == 2 ^ (IntBits - 1) - 1

MinInt == -(2 ^ (IntBits - 1))

\* The timestamps the operations are called with: two neighbours and the
\* largest representable value.
Times == {-1, 0, MaxInt}

\* Short names in the order of Rust's string comparison; "" is the empty
\* name, which no tag can carry.
NameOrder == <<"", "a", "b", "c">>

ShortNames == {"", "a", "b"}

LongNames == {"", "x"}

\* The wider universes of names the registry is exercised with on its own.
RegistryShortNames == {NameOrder[i] : i \in 1..Len(NameOrder)}

RegistryLongNames == {"", "x", "y"}

Descriptions == {"d1", "d2"}

RECURSIVE SeqsUpTo(_, _)
SeqsUpTo(S, n) ==
    IF n = 0 THEN {<<>>}
    ELSE LET shorter == SeqsUpTo(S, n - 1)
         IN  shorter \cup {Append(s, x) : s \in {q \in shorter : Len(q) = n - 1}, x \in S}

NameLists == SeqsUpTo(ShortNames, MaxNames)

(***************************************************************************)
(* Values.                                                                 *)
(***************************************************************************)

None == <<"None">>

Some(x) == <<"Some", x>>

Ok == <<"Ok">>

Err(kind) == <<"Err", kind>>

Panic == <<"Panic">>

Timestamp(t) == [kind |-> "Timestamp", v |-> t]

Position(p) == [kind |-> "Position", v |-> p]

\* One position past the largest the store can hold, so that an id out of
\* range is always among the inputs.
EventIds == {Timestamp(t) : t \in Times} \cup {Position(p) : p \in 0..Cardinality(Times)}

Event(description, tag_ids) == [description |-> description, tag_ids |-> tag_ids]

Tag(long_name, short_name) == [long_name |-> long_name, short_name |-> short_name]

(***************************************************************************)
(* Helpers for Vec and the two maps.                                       *)
(***************************************************************************)

Rank(sn) == CHOOSE i \in 1..Len(NameOrder) : NameOrder[i] = sn

Contains(s, x) == \E i \in 1..Len(s) : s[i] = x

Range(s) == {s[i] : i \in 1..Len(s)}

Dedup_none(s) == s

\* Vec::dedup: drops an element equal to the one before it.
RECURSIVE Dedup(_)
Dedup(s) ==
    IF Len(s) <= 1 THEN s
    ELSE LET rest == Dedup(Tail(s))
         IN  IF Head(s) = Head(rest) THEN rest ELSE <<Head(s)>> \o rest

SortNames(s) == SortSeq(s, LAMBDA a, b : Rank(a) < Rank(b))

SortIds(s) == SortSeq(s, LAMBDA a, b : a < b)

\* Vec::remove(index), index counted from 0.
RemoveAt(s, i) == SubSeq(s, 1, i) \o SubSeq(s, i + 2, Len(s))

\* iter().position(|i| *i == x): the first index (from 0) holding x.
FirstIndex(s, x) ==
    IF Contains(s, x)
    THEN Some((CHOOSE i \in 1..Len(s) : s[i] = x /\ \A j \in 1..(i - 1) : s[j] # x) - 1)
    ELSE None

MapRemove(m, k) == [x \in DOMAIN m \ {k} |-> m[x]]

MapInsert(m, k, val) == [x \in DOMAIN m \cup {k} |-> IF x = k THEN val ELSE m[x]]

\* The orders in which a HashMap may hand out the keys in S.
RECURSIVE Orders(_)
Orders(S) ==
    IF S = {} THEN {<<>>}
    ELSE UNION {{<<x>> \o o : o \in Orders(S \ {x})} : x \in S}

\* events.iter().rev(): the timestamps, largest first.
RECURSIVE RevKeys(_)
RevKeys(S) ==
    IF S = {} THEN <<>>
    ELSE LET m == CHOOSE x \in S : \A y \in S : y <= x
         IN  <<m>> \o RevKeys(S \ {m})

(***************************************************************************)
(* EventId (lib.rs 65-113) and the read-only part of EventDb.              *)
(***************************************************************************)

\* nth(pos) without .rev(): counted from the oldest event.
NthRev_fwd(evs, pos) ==
    LET keys == RevKeys(DOMAIN evs)
    IN  IF pos < Len(keys) THEN Some(keys[Len(keys) - pos]) ELSE None

\* iter().rev().nth(pos)
NthRev(evs, pos) ==
    LET keys == RevKeys(DOMAIN evs)
    IN  IF pos < Len(keys) THEN Some(keys[pos + 1]) ELSE None

\* nth(pos + 1): the position counts the newest event as the one before
\* the first.
to_timestamp_skip(id, evs) ==
    IF id.kind = "Timestamp"
    THEN IF id.v \in DOMAIN evs THEN Some(id.v) ELSE None
    ELSE NthRev(evs, id.v + 1)

to_timestamp(id, evs) ==
    IF id.kind = "Timestamp"
    THEN IF id.v \in DOMAIN evs THEN Some(id.v) ELSE None
    ELSE NthRev(evs, id.v)

\* The rank counted without .rev(), from the oldest event.
to_position_fwd(id, evs) ==
    IF id.kind = "Timestamp"
    THEN LET index == FirstIndex(RevKeys(DOMAIN evs), id.v)
         IN  IF index # None THEN Some(Cardinality(DOMAIN evs) - 1 - index[2]) ELSE None
    ELSE IF NthRev(evs, id.v) # None THEN Some(id.v) ELSE None

to_position(id, evs) ==
    IF id.kind = "Timestamp"
    THEN FirstIndex(RevKeys(DOMAIN evs), id.v)
    ELSE IF NthRev(evs, id.v) # None THEN Some(id.v) ELSE None

get_event(id, evs) ==
    LET ts == to_timestamp(id, evs)
    IN  IF ts # None THEN Some(evs[ts[2]]) ELSE None

exists(id, evs) == get_event(id, evs) # None

\* i64 subtraction: the difference when it is representable; otherwise the
\* build decides, a panic with overflow checks on and the wrapped value
\* with them off.
Wrap(x) == ((x - MinInt) % (2 ^ IntBits)) + MinInt

SubI64(a, b) ==
    IF a - b >= MinInt /\ a - b <= MaxInt
    THEN {Some(a - b)}
    ELSE {Panic, Some(Wrap(a - b))}

EventDuration_none(id, evs) ==
    IF ~exists(id, evs) THEN {None}
    ELSE LET current_event_timestamp == to_timestamp(id, evs)[2]
             current_event_position == to_position(id, evs)[2]
             preceeding == to_timestamp(Position(current_event_position + 1), evs)
         IN  IF preceeding # None
             THEN SubI64(current_event_timestamp, preceeding[2])
             ELSE {None}

\* The results get_event_duration can produce.
EventDuration(id, evs) ==
    IF ~exists(id, evs) THEN {None}
    ELSE LET current_event_timestamp == to_timestamp(id, evs)[2]
             current_event_position == to_position(id, evs)[2]
             preceeding == to_timestamp(Position(current_event_position + 1), evs)
         IN  IF preceeding # None
             THEN SubI64(current_event_timestamp, preceeding[2])
             ELSE {Some(0)}

IdsOfShortName(tgs, sn) == {k \in DOMAIN tgs : tgs[k].short_name = sn}

\* tag_id_from_short_name: the first match of the HashMap's iteration.
tag_id_from_short_name(tgs, sn) ==
    IF IdsOfShortName(tgs, sn) = {} THEN {None}
    ELSE {Some(k) : k \in IdsOfShortName(tgs, sn)}

(***************************************************************************)
(* The state after EventDb::new(); no file has been written.               *)
(***************************************************************************)

\* The file at the database path: absent (File::open fails with NotFound)
\* until the first write.
NoFile == [found |-> FALSE, complete |-> FALSE, tags |-> {}, events |-> {}]

\* No write has returned Ok yet.
NothingWritten == [found |-> FALSE, tags |-> <<>>, events |-> <<>>]

\* The call that has just returned: its name, its arguments, what it
\* returned, and the tags and events it was made on.  The record is kept
\* until the caller drops the result.
Called(op, args, ret) ==
    [op |-> op, args |-> args, ret |-> ret, tags |-> tags, events |-> events]

NoCall == [op |-> "none", args |-> <<>>, ret |-> <<>>, tags |-> <<>>, events |-> <<>>]

Idle == last = NoCall

Init ==
    /\ tags = <<>>
    /\ events = <<>>
    /\ file = NoFile
    /\ written = NothingWritten
    /\ last = NoCall

(***************************************************************************)
(* The tag registry (lib.rs 384-482).                                      *)
(***************************************************************************)

ShortNameInUse_never(tgs, short_name) == FALSE

ShortNameInUse(tgs, short_name) ==
    \E k \in DOMAIN tgs : tgs[k].short_name = short_name

\* One past the largest id in use.
FreeId_next(tgs) ==
    IF DOMAIN tgs = {} THEN 0
    ELSE 1 + (CHOOSE k \in DOMAIN tgs : \A j \in DOMAIN tgs : j <= k)

\* for number in 0.. { if !self.tags.contains_key(&number) ... break }
FreeId(tgs) ==
    CHOOSE number \in 0..Cardinality(DOMAIN tgs) :
        /\ number \notin DOMAIN tgs
        /\ \A m \in 0..(number - 1) : m \in DOMAIN tgs

\* A registry that overwrites the tag of a short name already in use.
add_tag_upsert(long_name, short_name) ==
    /\ Idle
    /\ UNCHANGED <<events, file, written>>
    /\ IF short_name = "" \/ long_name = ""
       THEN /\ last' = Called("add_tag", <<long_name, short_name>>, Err("InvalidInput"))
            /\ UNCHANGED tags
       ELSE IF \E k \in DOMAIN tags : tags[k] = Tag(long_name, short_name)
       THEN /\ last' = Called("add_tag", <<long_name, short_name>>, Err("AlreadyExists"))
            /\ UNCHANGED tags
       ELSE IF ShortNameInUse(tags, short_name)
       THEN /\ tags' = [k \in DOMAIN tags |->
                           IF tags[k].short_name = short_name
                           THEN Tag(long_name, short_name) ELSE tags[k]]
            /\ last' = Called("add_tag", <<long_name, short_name>>, Ok)
       ELSE /\ tags' = MapInsert(tags, FreeId(tags), Tag(long_name, short_name))
            /\ last' = Called("add_tag", <<long_name, short_name>>, Ok)

add_tag(long_name, short_name) ==
    /\ Idle
    /\ UNCHANGED <<events, file, written>>
    /\ IF short_name = "" \/ long_name = ""
       THEN /\ last' = Called("add_tag", <<long_name, short_name>>, Err("InvalidInput"))
            /\ UNCHANGED tags
       ELSE IF ShortNameInUse(tags, short_name)
       THEN /\ last' = Called("add_tag", <<long_name, short_name>>, Err("AlreadyExists"))
            /\ UNCHANGED tags
       ELSE /\ tags' = MapInsert(tags, FreeId(tags), Tag(long_name, short_name))
            /\ last' = Called("add_tag", <<long_name, short_name>>, Ok)

StripTag_keep(event, key) == event

\* The loop of remove_tag over one affected event: the first occurrence of
\* the key is taken out of tag_ids.
StripTag(event, key) ==
    LET index_to_remove == FirstIndex(event.tag_ids, key)
    IN  IF index_to_remove # None
        THEN Event(event.description, RemoveAt(event.tag_ids, index_to_remove[2]))
        ELSE event

\* Only the newest affected event.
AffectedEventTimes_one(evs, key) ==
    {t \in DOMAIN evs : /\ Contains(evs[t].tag_ids, key)
                        /\ \A u \in DOMAIN evs : Contains(evs[u].tag_ids, key) => u <= t}

AffectedEventTimes(evs, key) ==
    {t \in DOMAIN evs : Contains(evs[t].tag_ids, key)}

\* A removal that takes a missing short name for done.
remove_tag_lenient(short_name) ==
    /\ Idle
    /\ UNCHANGED <<file, written>>
    /\ IF IdsOfShortName(tags, short_name) = {}
       THEN /\ last' = Called("remove_tag", <<short_name>>, Ok)
            /\ UNCHANGED <<tags, events>>
       ELSE \E key_to_remove \in IdsOfShortName(tags, short_name) :
                /\ tags' = MapRemove(tags, key_to_remove)
                /\ events' = [t \in DOMAIN events |->
                               IF t \in AffectedEventTimes(events, key_to_remove)
                               THEN StripTag(events[t], key_to_remove)
                               ELSE events[t]]
                /\ last' = Called("remove_tag", <<short_name>>, Ok)

remove_tag(short_name) ==
    /\ Idle
    /\ UNCHANGED <<file, written>>
    /\ IF IdsOfShortName(tags, short_name) = {}
       THEN /\ last' = Called("remove_tag", <<short_name>>, Err("InvalidInput"))
            /\ UNCHANGED <<tags, events>>
       ELSE \E key_to_remove \in IdsOfShortName(tags, short_name) :
                /\ tags' = MapRemove(tags, key_to_remove)
                /\ events' = [t \in DOMAIN events |->
                               IF t \in AffectedEventTimes(events, key_to_remove)
                               THEN StripTag(events[t], key_to_remove)
                               ELSE events[t]]
                /\ last' = Called("remove_tag", <<short_name>>, Ok)

(***************************************************************************)
(* Events (lib.rs 178-238, 303-382).                                       *)
(***************************************************************************)

\* short_names.iter().flat_map(|sn| ids of the tags named sn): for each
\* name the matching ids, in the HashMap's order.
RECURSIVE FlatMapIds(_, _)
FlatMapIds(tgs, names) ==
    IF names = <<>> THEN {<<>>}
    ELSE {o \o rest : o \in Orders(IdsOfShortName(tgs, Head(names))),
                      rest \in FlatMapIds(tgs, Tail(names))}

NormalizeNames(short_names) == Dedup(SortNames(short_names))

\* Only the first name is looked up.
InvalidShortNames_first(tgs, names) ==
    LET existing_short_names == {tgs[k].short_name : k \in DOMAIN tgs}
    IN  IF names = <<>> THEN <<>>
        ELSE SelectSeq(<<Head(names)>>, LAMBDA sn : sn \notin existing_short_names)

InvalidShortNames(tgs, names) ==
    LET existing_short_names == {tgs[k].short_name : k \in DOMAIN tgs}
    IN  SelectSeq(names, LAMBDA sn : sn \notin existing_short_names)

\* entry(time).or_insert(event): an event already there stays.
InsertEvent_keep(evs, time, event) ==
    IF time \in DOMAIN evs THEN evs ELSE MapInsert(evs, time, event)

\* self.events.insert(time, event)
InsertEvent(evs, time, event) == MapInsert(evs, time, event)

add_event(time, description, short_names) ==
    /\ Idle
    /\ UNCHANGED <<tags, file, written>>
    /\ IF InvalidShortNames(tags, NormalizeNames(short_names)) # <<>>
       THEN /\ last' = Called("add_event", <<time, description, short_names>>,
                              Err("InvalidInput"))
            /\ UNCHANGED events
       ELSE \E tag_ids \in FlatMapIds(tags, NormalizeNames(short_names)) :
                /\ events' = InsertEvent(events, time, Event(description, tag_ids))
                /\ last' = Called("add_event", <<time, description, short_names>>, Ok)

remove_event(event_id) ==
    /\ Idle
    /\ UNCHANGED <<tags, file, written>>
    /\ LET timestamp == to_timestamp(event_id, events)
       IN  IF timestamp # None
           THEN /\ events' = MapRemove(events, timestamp[2])
                /\ last' = Called("remove_event", <<event_id>>, Some(events[timestamp[2]]))
           ELSE /\ last' = Called("remove_event", <<event_id>>, None)
                /\ UNCHANGED events

get_event_duration(event_id) ==
    /\ Idle
    /\ UNCHANGED <<tags, events, file, written>>
    /\ \E duration \in EventDuration(event_id, events) :
           last' = Called("get_event_duration", <<event_id>>, duration)

\* A name without a tag is passed over.
RECURSIVE ResolveNames_skip(_, _)
ResolveNames_skip(tgs, short_names) ==
    IF short_names = <<>> THEN {Some(<<>>)}
    ELSE UNION {{IF tag_id = None THEN rest ELSE Some(<<tag_id[2]>> \o rest[2]) :
                    rest \in ResolveNames_skip(tgs, Tail(short_names))} :
                   tag_id \in tag_id_from_short_name(tgs, Head(short_names))}

\* The loop that resolves the short names one by one: the ids found, or
\* None at the first name without a tag.
RECURSIVE ResolveNames(_, _)
ResolveNames(tgs, short_names) ==
    IF short_names = <<>> THEN {Some(<<>>)}
    ELSE UNION {IF tag_id = None THEN {None}
                ELSE {IF rest = None THEN None ELSE Some(<<tag_id[2]>> \o rest[2]) :
                         rest \in ResolveNames(tgs, Tail(short_names))} :
                   tag_id \in tag_id_from_short_name(tgs, Head(short_names))}

\* The new ids take the place of the old ones.
MergeTagIds_replace(old_ids, tag_ids) == Dedup(SortIds(tag_ids))

\* append, sort, dedup
MergeTagIds(old_ids, tag_ids) == Dedup(SortIds(old_ids \o tag_ids))

add_tags_for_event(event_id, short_names) ==
    /\ Idle
    /\ UNCHANGED <<tags, file, written>>
    /\ \E resolved \in ResolveNames(tags, short_names) :
           IF resolved = None
           THEN /\ last' = Called("add_tags_for_event", <<event_id, short_names>>,
                              Err("Could not find a specified tag"))
                /\ UNCHANGED events
           ELSE LET timestamp == to_timestamp(event_id, events)
                IN  IF timestamp # None
                    THEN /\ events' = [events EXCEPT ![timestamp[2]].tag_ids =
                                           MergeTagIds(@, resolved[2])]
                         /\ last' = Called("add_tags_for_event", <<event_id, short_names>>, Ok)
                    ELSE /\ last' = Called("add_tags_for_event", <<event_id, short_names>>,
                                       Err("Could not find an event at that EventId"))
                         /\ UNCHANGED events

\* The loop ends at the first tag id the event does not hold.
RECURSIVE RemoveEach_break(_, _)
RemoveEach_break(ids, tag_ids) ==
    IF tag_ids = <<>> THEN ids
    ELSE LET index == FirstIndex(ids, Head(tag_ids))
         IN  IF index # None
             THEN RemoveEach_break(RemoveAt(ids, index[2]), Tail(tag_ids))
             ELSE ids

\* for tag_id in &tag_ids { position(..) => remove(index), None => continue }
RECURSIVE RemoveEach(_, _)
RemoveEach(ids, tag_ids) ==
    IF tag_ids = <<>> THEN ids
    ELSE LET index == FirstIndex(ids, Head(tag_ids))
         IN  RemoveEach(IF index # None THEN RemoveAt(ids, index[2]) ELSE ids,
                        Tail(tag_ids))

remove_tags_for_event(event_id, short_names) ==
    /\ Idle
    /\ UNCHANGED <<tags, file, written>>
    /\ \E resolved \in ResolveNames(tags, short_names) :
           IF resolved = None
           THEN /\ last' = Called("remove_tags_for_event", <<event_id, short_names>>,
                              Err("Could not find a specified tag"))
                /\ UNCHANGED events
           ELSE LET timestamp == to_timestamp(event_id, events)
                IN  IF timestamp # None
                    THEN /\ events' = [events EXCEPT ![timestamp[2]].tag_ids =
                                           RemoveEach(@, resolved[2])]
                         /\ last' = Called("remove_tags_for_event", <<event_id, short_names>>, Ok)
                    ELSE /\ last' = Called("remove_tags_for_event", <<event_id, short_names>>,
                                       Err("Could not find an event at that position"))
                         /\ UNCHANGED events

(***************************************************************************)
(* The store under any sequence of calls.                                  *)
(***************************************************************************)

(***************************************************************************)
(* The log.                                                                *)
(***************************************************************************)

\* A chrono::DateTime<Local>: whole seconds since the epoch and the part of
\* a second on top, in halves.
DateTime(secs, halves) == [secs |-> secs, halves |-> halves]

\* DateTime::timestamp(): the whole seconds.
timestamp(dt) == dt.secs

\* Ord for DateTime, which min and max go by.
DateTimeLe(a, b) == a.secs < b.secs \/ (a.secs = b.secs /\ a.halves <= b.halves)

min(a, b) == IF DateTimeLe(a, b) THEN a ELSE b

max(a, b) == IF DateTimeLe(a, b) THEN b ELSE a

LogEvent(time, event, duration, position) ==
    [timestamp |-> time, event |-> event, duration |-> duration, position |-> position]

\* A Vec that was returned.
Vec(s) == <<"Vec", s>>

\* filter(|&(time, _)| *time > timestamp_early && *time < timestamp_late)
InRange(time, timestamp_early, timestamp_late) ==
    time > timestamp_early /\ time < timestamp_late

\* The timestamps the filter lets through, in the order of
\* events.iter().rev().
LogTimestamps(evs, timestamp_early, timestamp_late) ==
    SelectSeq(RevKeys(DOMAIN evs),
              LAMBDA time : InRange(time, timestamp_early, timestamp_late))

\* What get_log_between_times can produce.  The subtraction in
\* get_event_duration panics in a build with overflow checks and wraps in
\* one without; the build is the same for every record of the Vec.
LogBetweenTimes(evs, time_start, time_end) ==
    LET timestamp_early == timestamp(min(time_start, time_end))
        timestamp_late == timestamp(max(time_start, time_end))
        times == LogTimestamps(evs, timestamp_early, timestamp_late)
        overflows == \E i \in 1..Len(times) :
                         Panic \in EventDuration(Timestamp(times[i]), evs)
        log == [i \in 1..Len(times) |->
                   LogEvent(times[i],
                            evs[times[i]],
                            CHOOSE duration \in EventDuration(Timestamp(times[i]), evs) :
                                duration # Panic,
                            FirstIndex(RevKeys(DOMAIN evs), times[i])[2])]
    IN  IF overflows THEN {Panic, Vec(log)} ELSE {Vec(log)}

get_log_between_times(time_start, time_end) ==
    /\ Idle
    /\ UNCHANGED <<tags, events, file, written>>
    /\ \E log \in LogBetweenTimes(events, time_start, time_end) :
           last' = Called("get_log_between_times", <<time_start, time_end>>, log)

(***************************************************************************)
(* Persistence.  serde_json writes the keys of both maps, integers in the  *)
(* store, as the strings of their decimal digits and parses them back.     *)
(***************************************************************************)

DigitChars == <<"0", "1", "2", "3", "4", "5", "6", "7", "8", "9">>

RECURSIVE Digits(_)
Digits(n) ==
    IF n < 10 THEN <<DigitChars[n + 1]>>
    ELSE Digits(n \div 10) \o <<DigitChars[(n % 10) + 1]>>

\* The key is written without its sign.
FormatInt_abs(i) == IF i < 0 THEN Digits(-i) ELSE Digits(i)

\* The decimal form of an integer, a string of characters.
FormatInt(i) == IF i < 0 THEN <<"-">> \o Digits(-i) ELSE Digits(i)

DigitValue(c) == (CHOOSE d \in 1..10 : DigitChars[d] = c) - 1

RECURSIVE ParseDigits(_)
ParseDigits(s) ==
    IF s = <<>> THEN 0
    ELSE 10 * ParseDigits(SubSeq(s, 1, Len(s) - 1)) + DigitValue(s[Len(s)])

ParseInt(s) == IF Head(s) = "-" THEN -ParseDigits(Tail(s)) ELSE ParseDigits(s)

\* A JSON object: its members, key and value.
ToObject(map) == {<<FormatInt(k), map[k]>> : k \in DOMAIN map}

\* The map an object deserializes to.
FromObject(object) ==
    [k \in {ParseInt(member[1]) : member \in object} |->
        (CHOOSE member \in object : ParseInt(member[1]) = k)[2]]

\* The file after to_writer_pretty has written all of the store.
Written(tgs, evs) ==
    [found |-> TRUE, complete |-> TRUE, tags |-> ToObject(tgs), events |-> ToObject(evs)]

\* The file after File::create has emptied it and to_writer_pretty has
\* failed on the way: a part of the document, or none of it.
Truncated == [found |-> TRUE, complete |-> FALSE, tags |-> {}, events |-> {}]

\* The store as of the last write that returned Ok, if there was one.
Snapshot(tgs, evs) == [found |-> TRUE, tags |-> tgs, events |-> evs]

\* What write can do to the file fl: write the store; fail in
\* create_dir_all or in File::create, the file being left alone; fail in
\* to_writer_pretty, the file having been emptied by File::create.
WriteOutcomes(tgs, evs, fl) ==
    { [ret |-> Ok, file |-> Written(tgs, evs)],
      [ret |-> Err("Io"), file |-> fl],
      [ret |-> Err("Io"), file |-> Truncated] }

write ==
    /\ Idle
    /\ UNCHANGED <<tags, events>>
    /\ \E outcome \in WriteOutcomes(tags, events, file) :
        /\ file' = outcome.file
        /\ written' = IF outcome.ret = Ok THEN Snapshot(tags, events) ELSE written
        /\ last' = Called("write", <<>>, outcome.ret)

\* A call of read that has just returned: the record of the call and the
\* file it found.
CalledRead(ret) ==
    [op |-> "read", args |-> <<>>, ret |-> ret,
     tags |-> tags, events |-> events, file |-> file]

\* EventDb::read, the store it returns taking the place of the caller's.
read ==
    /\ Idle
    /\ \/ \* File::open fails with an error other than NotFound
          /\ last' = CalledRead(Err("Io"))
          /\ UNCHANGED <<tags, events, file, written>>
       \/ \* serde_json::from_reader reads the document
          /\ file.found
          /\ file.complete
          /\ tags' = FromObject(file.tags)
          /\ events' = FromObject(file.events)
          /\ last' = CalledRead(Ok)
          /\ UNCHANGED <<file, written>>
       \/ \* serde_json::from_reader meets the end of the file
          /\ file.found
          /\ ~file.complete
          /\ last' = CalledRead(Err("UnexpectedEof"))
          /\ UNCHANGED <<tags, events, file, written>>
       \/ \* NotFound: EventDb::new() is written and returned
          /\ ~file.found
          /\ \E outcome \in WriteOutcomes(<<>>, <<>>, file) :
              /\ file' = outcome.file
              /\ written' = IF outcome.ret = Ok THEN Snapshot(<<>>, <<>>) ELSE written
              /\ tags' = IF outcome.ret = Ok THEN <<>> ELSE tags
              /\ events' = IF outcome.ret = Ok THEN <<>> ELSE events
              /\ last' = CalledRead(outcome.ret)

\* The caller drops the result of the call and is free to make the next.
DropResult ==
    /\ ~Idle
    /\ last' = NoCall
    /\ UNCHANGED <<tags, events, file, written>>

\* A call is made when the result of the one before has been dropped.
Next ==
    \/ Idle /\ \E long_name \in LongNames, short_name \in ShortNames :
           add_tag(long_name, short_name)
    \/ Idle /\ \E short_name \in ShortNames : remove_tag(short_name)
    \/ Idle /\ \E time \in Times, description \in Descriptions, short_names \in NameLists :
           add_event(time, description, short_names)
    \/ Idle /\ \E event_id \in EventIds : remove_event(event_id)
    \/ Idle /\ \E event_id \in EventIds, short_names \in NameLists :
           add_tags_for_event(event_id, short_names)
    \/ Idle /\ \E event_id \in EventIds, short_names \in NameLists :
           remove_tags_for_event(event_id, short_names)
    \/ Idle /\ \E event_id \in EventIds : get_event_duration(event_id)
    \/ DropResult

Spec == Init /\ [][Next]_vars

\* The registry on its own, with more names than Next draws from, and one
\* event to carry the tag ids.
NextRegistry ==
    \/ Idle /\ \E long_name \in RegistryLongNames, short_name \in RegistryShortNames :
           add_tag(long_name, short_name)
    \/ Idle /\ \E short_name \in RegistryShortNames : remove_tag(short_name)
    \/ Idle /\ \E short_names \in SeqsUpTo(RegistryShortNames, MaxNames) :
           add_event(0, "d1", short_names)
    \/ DropResult

SpecRegistry == Init /\ [][NextRegistry]_vars

\* The log on its own.  The timestamps reach down to the smallest i64, the
\* bounds of the range lie around 0 and 1, on the second and half a second
\* past it.
LogTimes == {MinInt, 0, 1}

LogBounds == {DateTime(secs, halves) : secs \in {-1, 1, 2}, halves \in {0, 1}}

NextLog ==
    \/ add_tag("x", "a")
    \/ Idle /\ \E time \in LogTimes, description \in Descriptions,
          short_names \in SeqsUpTo({"a"}, 1) :
           add_event(time, description, short_names)
    \/ Idle /\ \E time \in LogTimes : remove_event(Timestamp(time))
    \/ Idle /\ \E time_start \in LogBounds, time_end \in LogBounds :
           get_log_between_times(time_start, time_end)
    \/ DropResult

SpecLog == Init /\ [][NextLog]_vars

\* Persistence on its own: a small store that is written and read at
\* any point.
NextIO ==
    \/ add_tag("x", "a")
    \/ remove_tag("a")
    \/ Idle /\ \E time \in Times, short_names \in SeqsUpTo({"a"}, 1) :
           add_event(time, "d1", short_names)
    \/ Idle /\ \E time \in Times : remove_event(Timestamp(time))
    \/ write
    \/ read
    \/ DropResult

SpecIO == Init /\ [][NextIO]_vars

(***************************************************************************)
(* What the claims speak of, stated without the code's own resolver.       *)
(***************************************************************************)

\* The ids of the tags that carry one of the given short names.
NamedIds(tgs, short_names) ==
    {k \in DOMAIN tgs : \E i \in 1..Len(short_names) : tgs[k].short_name = short_names[i]}

\* Every given short name is the short name of a tag.
AllResolve(tgs, short_names) ==
    \A i \in 1..Len(short_names) : \E k \in DOMAIN tgs : tgs[k].short_name = short_names[i]

\* The timestamp an EventId stands for: the one named, or the one with
\* exactly p larger timestamps in the store; empty when there is none.
ResolvedTimes(id, evs) ==
    {t \in DOMAIN evs :
        \/ id.kind = "Timestamp" /\ id.v = t
        \/ id.kind = "Position" /\ Cardinality({u \in DOMAIN evs : u > t}) = id.v}

OlderTimes(t, evs) == {u \in DOMAIN evs : u < t}

Predecessor(t, evs) ==
    CHOOSE u \in OlderTimes(t, evs) : \A w \in OlderTimes(t, evs) : w <= u

(***************************************************************************)
(* The claims.  A claim about one call is stated of the state in which     *)
(* the call has just returned: last holds the call, its result and the     *)
(* tags and events it was made on; tags and events are what it left.       *)
(***************************************************************************)

\* C1: every tag id held in the tag_ids of any event is a key of the tag
\* registry, after any sequence of calls, a freed id being reused included.
C1_ReferentialIntegrity ==
    \A t \in DOMAIN events : Range(events[t].tag_ids) \subseteq DOMAIN tags

\* add_tag has just handed out the freed id 0 again while tag 1 is still
\* there and held by an event.
C1_Witness ==
    /\ last.op = "add_tag"
    /\ last.ret = Ok
    /\ DOMAIN last.tags = {1}
    /\ DOMAIN tags = {0, 1}
    /\ \E t \in DOMAIN events : Contains(events[t].tag_ids, 1)

\* C2: no two distinct tag ids of the registry map to tags with the same
\* short name.
C2_ShortNamesUnique ==
    \A k1 \in DOMAIN tags, k2 \in DOMAIN tags :
        k1 # k2 => tags[k1].short_name # tags[k2].short_name

\* Three tags are registered and a fourth add_tag was turned down as a
\* duplicate.
C2_Witness ==
    /\ Cardinality(DOMAIN tags) = 3
    /\ last.op = "add_tag"
    /\ last.ret = Err("AlreadyExists")

\* C3: for every timestamp t that has an event, to_position(Timestamp(t)) is
\* Some(p) and to_timestamp(Position(p)) is Some(t).
C3_AddressingEquivalence ==
    \A t \in DOMAIN events :
        LET p == to_position(Timestamp(t), events)
        IN  /\ p # None
            /\ to_timestamp(Position(p[2]), events) = Some(t)

\* The middle one of three events was removed, so a position has shifted.
C3_Witness ==
    /\ last.op = "remove_event"
    /\ Cardinality(DOMAIN last.events) = 3
    /\ Cardinality(DOMAIN events) = 2
    /\ \E t \in DOMAIN last.events \ DOMAIN events :
           OlderTimes(t, events) # {} /\ OlderTimes(t, events) # DOMAIN events

\* C4: remove_tag on an existing short name returns Ok, removes exactly
\* that tag and strips its id from every event; the other tags, the event
\* timestamps, the descriptions and the other tag ids stay as they were.
C4_Cascade ==
    (last.op = "remove_tag" /\ AllResolve(last.tags, last.args)) =>
        /\ last.ret = Ok
        /\ \E key \in DOMAIN last.tags :
            /\ last.tags[key].short_name = last.args[1]
            /\ DOMAIN tags = DOMAIN last.tags \ {key}
            /\ \A k \in DOMAIN tags : tags[k] = last.tags[k]
            /\ DOMAIN events = DOMAIN last.events
            /\ \A t \in DOMAIN events :
                /\ events[t].description = last.events[t].description
                /\ ~Contains(events[t].tag_ids, key)
                /\ events[t].tag_ids =
                       SelectSeq(last.events[t].tag_ids, LAMBDA k : k # key)

\* remove_tag stripped its tag from two events, one of which held another
\* tag id too, while a third event did not hold it.
C4_Witness ==
    /\ last.op = "remove_tag"
    /\ last.ret = Ok
    /\ \E key \in DOMAIN last.tags \ DOMAIN tags :
        /\ Cardinality({t \in DOMAIN last.events :
                           Contains(last.events[t].tag_ids, key)}) = 2
        /\ \E t \in DOMAIN last.events :
               Contains(last.events[t].tag_ids, key) /\ Len(last.events[t].tag_ids) = 2
        /\ \E t \in DOMAIN last.events : ~Contains(last.events[t].tag_ids, key)

\* C5: a successful add_event at a timestamp that already holds an event
\* replaces it in full: get_event(Timestamp(t)) then has the description and
\* the tag ids of this call, the number of events is the same and the events
\* at other timestamps are unchanged.
C5_Overwrite ==
    (last.op = "add_event" /\ last.ret = Ok /\ last.args[1] \in DOMAIN last.events) =>
        LET got == get_event(Timestamp(last.args[1]), events)
        IN  /\ got # None
            /\ got[2].description = last.args[2]
            /\ Range(got[2].tag_ids) = NamedIds(last.tags, last.args[3])
            /\ Cardinality(DOMAIN events) = Cardinality(DOMAIN last.events)
            /\ \A u \in DOMAIN last.events \ {last.args[1]} :
                   u \in DOMAIN events /\ events[u] = last.events[u]

\* add_event has replaced an event that had two tags and another
\* description by one with a single tag, next to another event.
C5_Witness ==
    /\ last.op = "add_event"
    /\ last.ret = Ok
    /\ last.args[1] \in DOMAIN last.events
    /\ Len(last.events[last.args[1]].tag_ids) = 2
    /\ last.events[last.args[1]].description # last.args[2]
    /\ Len(events[last.args[1]].tag_ids) = 1
    /\ Cardinality(DOMAIN events) >= 2

\* C6: add_event with a short name that resolves to no tag returns
\* InvalidInput and leaves tags and events as they were; with every name
\* resolving it returns Ok and the event at the timestamp holds exactly the
\* ids of the named tags.
C6_AddEventAllOrNothing ==
    last.op = "add_event" =>
        IF ~AllResolve(last.tags, last.args[3])
        THEN /\ last.ret = Err("InvalidInput")
             /\ tags = last.tags
             /\ events = last.events
        ELSE /\ last.ret = Ok
             /\ tags = last.tags
             /\ last.args[1] \in DOMAIN events
             /\ Range(events[last.args[1]].tag_ids) = NamedIds(last.tags, last.args[3])

\* add_event was turned down for a list with the name of a tag followed by
\* a name of none, at a timestamp that holds an event.
C6_Witness ==
    /\ last.op = "add_event"
    /\ last.ret = Err("InvalidInput")
    /\ Len(last.args[3]) = 2
    /\ AllResolve(last.tags, <<last.args[3][1]>>)
    /\ ~AllResolve(last.tags, <<last.args[3][2]>>)
    /\ last.args[1] \in DOMAIN events

C8_DurationIsDifference ==
    last.op = "get_event_duration" =>
        /\ ResolvedTimes(last.args[1], events) = {} => last.ret = None
        /\ \A t \in ResolvedTimes(last.args[1], events) :
               OlderTimes(t, events) # {} =>
                   last.ret = Some(t - Predecessor(t, events))

\* C9: add_tag with non-empty names and a short name already in the
\* registry fails with AlreadyExists, whatever the long name, and leaves the
\* store unchanged.
C9_DuplicateRejected ==
    (/\ last.op = "add_tag"
     /\ last.args[1] # ""
     /\ last.args[2] # ""
     /\ AllResolve(last.tags, <<last.args[2]>>)) =>
        /\ last.ret = Err("AlreadyExists")
        /\ tags = last.tags
        /\ events = last.events

\* A duplicate short name came with a long name other than the one
\* registered, in a store with an event that holds this tag.
C9_Witness ==
    /\ last.op = "add_tag"
    /\ last.ret = Err("AlreadyExists")
    /\ \E k \in DOMAIN tags :
        /\ tags[k].short_name = last.args[2]
        /\ tags[k].long_name # last.args[1]
        /\ \E t \in DOMAIN events : Contains(events[t].tag_ids, k)

\* C10: remove_tag with a short name that no tag has fails with
\* InvalidInput and leaves tags and events unchanged.
C10_RemoveMissingTag ==
    (last.op = "remove_tag" /\ ~AllResolve(last.tags, last.args)) =>
        /\ last.ret = Err("InvalidInput")
        /\ tags = last.tags
        /\ events = last.events

\* remove_tag was turned down for a non-empty name in a store that holds
\* another tag and an event with that tag.
C10_Witness ==
    /\ last.op = "remove_tag"
    /\ last.ret = Err("InvalidInput")
    /\ last.args[1] # ""
    /\ \E t \in DOMAIN events : events[t].tag_ids # <<>>

\* C11: add_tags_for_event and remove_tags_for_event return an error and
\* leave tags and events unchanged whenever one of the short names has no
\* tag, the others having one and the event being there included, or the
\* EventId resolves to no event.
C11_AttachAllOrNothing ==
    (/\ last.op \in {"add_tags_for_event", "remove_tags_for_event"}
     /\ \/ ~AllResolve(last.tags, last.args[2])
        \/ ResolvedTimes(last.args[1], last.events) = {}) =>
        /\ last.ret[1] = "Err"
        /\ tags = last.tags
        /\ events = last.events

\* add_tags_for_event was turned down for the name of a tag the event does
\* not hold yet followed by a name of no tag, on an event that is there.
C11_Witness ==
    /\ last.op = "add_tags_for_event"
    /\ last.ret[1] = "Err"
    /\ Len(last.args[2]) = 2
    /\ ~AllResolve(last.tags, <<last.args[2][2]>>)
    /\ \E t \in ResolvedTimes(last.args[1], last.events) :
        \E k \in NamedIds(last.tags, <<last.args[2][1]>>) :
            ~Contains(last.events[t].tag_ids, k)

\* C12: no event's tag_ids holds the same tag id twice, after add_event
\* with a short name given more than once and after add_tags_for_event
\* with a tag the event already has included.
C12_NoDuplicateTagIds ==
    \A t \in DOMAIN events :
        Len(events[t].tag_ids) = Cardinality(Range(events[t].tag_ids))

\* add_tags_for_event has returned Ok for a name given twice whose tag the
\* event already had, next to an event made by add_event from a repeated
\* name.
C12_Witness ==
    /\ last.op = "add_tags_for_event"
    /\ last.ret = Ok
    /\ Len(last.args[2]) = 2
    /\ last.args[2][1] = last.args[2][2]
    /\ \E t \in ResolvedTimes(last.args[1], last.events) :
        /\ NamedIds(last.tags, last.args[2]) \subseteq Range(last.events[t].tag_ids)
        /\ Len(events[t].tag_ids) = 1

\* C13: the tag_ids of every event are in ascending order of tag id, in
\* every state that add_tag, remove_tag, add_event, add_tags_for_event and
\* remove_tags_for_event can reach.
C13_TagIdsAscending ==
    \A t \in DOMAIN events :
        \A i \in 1..Len(events[t].tag_ids), j \in 1..Len(events[t].tag_ids) :
            i < j => events[t].tag_ids[i] < events[t].tag_ids[j]

\* C14: an add_tag with two non-empty names and a short name not in use
\* returns Ok and stores the tag under the smallest number that is not a key
\* of the registry, a freed id included; the tags that were there keep their
\* ids and their contents.
C14_SmallestFreeId ==
    (/\ last.op = "add_tag"
     /\ last.args[1] # ""
     /\ last.args[2] # ""
     /\ ~AllResolve(last.tags, <<last.args[2]>>)) =>
        /\ last.ret = Ok
        /\ \E n \in DOMAIN tags \ DOMAIN last.tags :
            /\ \A m \in 0..(n - 1) : m \in DOMAIN last.tags
            /\ DOMAIN tags = DOMAIN last.tags \cup {n}
            /\ tags[n] = Tag(last.args[1], last.args[2])
        /\ \A k \in DOMAIN last.tags : tags[k] = last.tags[k]

\* add_tag has handed out the freed id 1 between the tags 0 and 2.
C14_Witness ==
    /\ last.op = "add_tag"
    /\ last.ret = Ok
    /\ DOMAIN last.tags = {0, 2}
    /\ DOMAIN tags = {0, 1, 2}

\* C15: remove_event with an EventId that resolves removes that event and
\* no other and returns it, the other events and the tags staying as they
\* were; with an EventId that does not resolve it returns None and leaves
\* the store unchanged.
C15_RemoveEventFrame ==
    last.op = "remove_event" =>
        /\ tags = last.tags
        /\ ResolvedTimes(last.args[1], last.events) = {} =>
               last.ret = None /\ events = last.events
        /\ \A t \in ResolvedTimes(last.args[1], last.events) :
            /\ last.ret = Some(last.events[t])
            /\ DOMAIN events = DOMAIN last.events \ {t}
            /\ \A u \in DOMAIN events : events[u] = last.events[u]

\* remove_event has taken, by position, the newest of three events that
\* differ in their tags.
C15_Witness ==
    /\ last.op = "remove_event"
    /\ last.args[1] = Position(0)
    /\ Cardinality(DOMAIN last.events) = 3
    /\ Cardinality(DOMAIN events) = 2
    /\ \E t \in DOMAIN last.events \ DOMAIN events :
        /\ OlderTimes(t, last.events) = DOMAIN events
        /\ \A u \in DOMAIN events : events[u].tag_ids # last.events[t].tag_ids

\* C16: Timestamp(t) resolves exactly when an event is stored at t;
\* Position(p) resolves exactly when p is below the number of events, and
\* to_timestamp(Position(p)) is then the (p+1)-th largest timestamp;
\* to_position(Timestamp(t)) is the number of events with a timestamp above
\* t; exists, to_timestamp being Some and to_position being Some agree.
C16_ResolverSemantics ==
    \A id \in {Timestamp(t) : t \in DOMAIN events \cup Times \cup LogTimes}
              \cup {Position(p) : p \in 0..(Cardinality(DOMAIN events) + 1)} :
        LET found == exists(id, events)
            time == to_timestamp(id, events)
            position == to_position(id, events)
        IN  /\ found <=> (time # None)
            /\ found <=> (position # None)
            /\ id.kind = "Timestamp" =>
                /\ found <=> (id.v \in DOMAIN events)
                /\ id.v \in DOMAIN events =>
                       position = Some(Cardinality({u \in DOMAIN events : u > id.v}))
            /\ id.kind = "Position" =>
                /\ found <=> (id.v < Cardinality(DOMAIN events))
                /\ id.v < Cardinality(DOMAIN events) =>
                    \E t \in DOMAIN events :
                        /\ Cardinality({u \in DOMAIN events : u > t}) = id.v
                        /\ time = Some(t)

\* remove_event has left two of three events, so that Position(2) and the
\* timestamp of the removed event have stopped resolving.
C16_Witness ==
    /\ last.op = "remove_event"
    /\ last.ret # None
    /\ Cardinality(DOMAIN last.events) = 3
    /\ Cardinality(DOMAIN events) = 2
    /\ ~exists(Position(2), events)

\* C17: get_log_between_times returns the events whose timestamp is above
\* the smaller and below the larger of start and end, and no others, in
\* descending order of timestamp, whichever of the two is given first; the
\* position and the duration of each record are to_position and
\* get_event_duration of its timestamp.
C17_LogBetweenTimes ==
    last.op = "get_log_between_times" =>
        LET lo == IF last.args[1].secs <= last.args[2].secs
                  THEN last.args[1].secs ELSE last.args[2].secs
            hi == IF last.args[1].secs <= last.args[2].secs
                  THEN last.args[2].secs ELSE last.args[1].secs
            between == {t \in DOMAIN events : lo < t /\ t < hi}
        IN  /\ last.ret[1] = "Vec"
            /\ LET log == last.ret[2]
               IN  /\ Len(log) = Cardinality(between)
                   /\ {log[i].timestamp : i \in 1..Len(log)} = between
                   /\ \A i \in 1..Len(log), j \in 1..Len(log) :
                          i < j => log[i].timestamp > log[j].timestamp
                   /\ \A i \in 1..Len(log) :
                       /\ log[i].event = events[log[i].timestamp]
                       /\ Some(log[i].position) =
                              to_position(Timestamp(log[i].timestamp), events)
                       /\ log[i].duration \in
                              EventDuration(Timestamp(log[i].timestamp), events)

C19_AttachIsUnion ==
    (last.op = "add_tags_for_event" /\ last.ret = Ok) =>
        /\ tags = last.tags
        /\ DOMAIN events = DOMAIN last.events
        /\ \E t \in ResolvedTimes(last.args[1], last.events) :
            /\ Range(events[t].tag_ids) =
                   Range(last.events[t].tag_ids) \cup NamedIds(last.tags, last.args[2])
            /\ events[t].description = last.events[t].description
            /\ \A u \in DOMAIN events \ {t} : events[u] = last.events[u]

\* add_tags_for_event has added tag 0 to an event that held tag 1 only,
\* next to another event.
C19_Witness ==
    /\ last.op = "add_tags_for_event"
    /\ last.ret = Ok
    /\ Cardinality(DOMAIN events) >= 2
    /\ \E t \in ResolvedTimes(last.args[1], last.events) :
        /\ last.events[t].tag_ids = <<1>>
        /\ events[t].tag_ids = <<0, 1>>

\* C20: a successful remove_tags_for_event returns Ok also when the event
\* does not hold the named tags; afterwards the tag ids of the event are
\* those it had without the named ones, a name given more than once
\* included; the description, the other events and the tags are unchanged.
C20_DetachIsDifference ==
    (/\ last.op = "remove_tags_for_event"
     /\ AllResolve(last.tags, last.args[2])
     /\ ResolvedTimes(last.args[1], last.events) # {}) =>
        /\ last.ret = Ok
        /\ tags = last.tags
        /\ DOMAIN events = DOMAIN last.events
        /\ \E t \in ResolvedTimes(last.args[1], last.events) :
            /\ Range(events[t].tag_ids) =
                   Range(last.events[t].tag_ids) \ NamedIds(last.tags, last.args[2])
            /\ events[t].description = last.events[t].description
            /\ \A u \in DOMAIN events \ {t} : events[u] = last.events[u]

\* remove_tags_for_event was given twice the name of one of the two tags
\* the event holds, so that the second turn found the tag gone.
C20_Witness ==
    /\ last.op = "remove_tags_for_event"
    /\ last.ret = Ok
    /\ Len(last.args[2]) = 2
    /\ last.args[2][1] = last.args[2][2]
    /\ \E t \in ResolvedTimes(last.args[1], last.events) :
        /\ NamedIds(last.tags, last.args[2]) \cap Range(last.events[t].tag_ids) # {}
        /\ Len(last.events[t].tag_ids) = 2
        /\ Len(events[t].tag_ids) = 1

\* C21: for two events at distinct timestamps anywhere in the range of i64,
\* get_event_duration of the newer one computes the difference of the two
\* without overflow: the call returns, and what it returns is Some of a
\* number above zero.
C21_DurationDoesNotWrap ==
    last.op = "get_event_duration" =>
        \A t \in ResolvedTimes(last.args[1], events) :
            OlderTimes(t, events) # {} =>
                /\ t - Predecessor(t, events) <= MaxInt
                /\ last.ret # Panic
                /\ last.ret[1] = "Some"
                /\ last.ret[2] > 0

====
